---- MODULE Spec2Model ----
(***************************************************************************)
(* Conversions between geo's typed geometries (generic over a float type   *)
(* T) and geojson's flat coordinate vectors (Vec<f64> and nestings of it), *)
(* as implemented in src/conversion.rs.                                    *)
(*                                                                         *)
(* Numbers.  An f64 is modelled as a natural number 0..MaxCoord.  The      *)
(* generic parameter T is "f64" or "f32".  An f64-typed coordinate is the  *)
(* number itself; an f32 has a coarser grid: it is modelled by its grid    *)
(* index k, standing for the value k * Ulp32, so that converting an f64 to *)
(* T rounds to the nearest grid point (ties to even) and converting back   *)
(* is exact.                                                               *)
(*                                                                         *)
(* A panic (index out of bounds, unwrap of None) unwinds through every     *)
(* caller: a call either yields Ok(v) or Panic.                            *)
(***************************************************************************)
EXTENDS Integers, Sequences, FiniteSets, TLC

\* ---------------------------------------------------------------- bounds
MaxCoord == 2
MaxPairLen == 3
MaxNodes == 5
MaxGeoms == 3
MaxCalls == 2
Ulp32 == 2

NumTypes == {"f32", "f64"}

\* ------------------------------------------------------- numeric glue
\* <f64 as NumCast>::from / ToPrimitive::to_f32: `n as f32`, round to
\* nearest representable, ties to even; identity for T = f64.
FromF64(T, v) ==
    IF T = "f64" THEN v
    ELSE LET q == v \div Ulp32
             r == v % Ulp32
         IN  IF 2 * r < Ulp32 THEN q
             ELSE IF 2 * r > Ulp32 THEN q + 1
             ELSE IF q % 2 = 0 THEN q ELSE q + 1

\* ToPrimitive::to_f64: widening, exact.
ToF64(T, t) == IF T = "f64" THEN t ELSE t * Ulp32

\* ------------------------------------------------------ results / panics
Ok(v) == [ok |-> TRUE, v |-> v]
Panic == [ok |-> FALSE]

\* iter().map(f).collect(), r holding the outcome of f for each element of
\* the slice in order: a panic in any f unwinds out of the whole expression.
Collect(r) ==
    IF \E i \in 1..Len(r) : ~r[i].ok
    THEN Panic
    ELSE Ok([i \in 1..Len(r) |-> r[i].v])

\* ----------------------------------------------- geo's typed constructors
\* Coord { x, y }
Coord(x, y) == [x |-> x, y |-> y]

\* Point(pub Coord): Point::new(x, y), and Point::from(coord) as yielded by
\* LineString::points().
PointNew(x, y) == <<Coord(x, y)>>
PointFromCoord(c) == <<c>>

\* LineString::is_closed: self.0.first() == self.0.last()  (None == None
\* for an empty line string).
is_closed(ls) == IF Len(ls) = 0 THEN TRUE ELSE ls[1] = ls[Len(ls)]

\* LineString::close: push a copy of the first coordinate unless closed.
close(ls) == IF is_closed(ls) THEN ls ELSE Append(ls, ls[1])

\* Polygon::new(exterior, interiors): closes the exterior and every interior.
PolygonNew(exterior, interiors) ==
    [exterior  |-> close(exterior),
     interiors |-> [i \in 1..Len(interiors) |-> close(interiors[i])]]

\* --------------------------------------------------- encoders (typed -> flat)
create_point_type(T, point) ==
    LET x == ToF64(T, point[1].x)
        y == ToF64(T, point[1].y)
    IN  <<x, y>>

create_line_string_type(T, line_string) ==
    [i \in 1..Len(line_string) |->
        create_point_type(T, PointFromCoord(line_string[i]))]

create_multi_line_string_type(T, multi_line_string) ==
    [i \in 1..Len(multi_line_string) |->
        create_line_string_type(T, multi_line_string[i])]

\* Mutant: the interior rings are emitted last to first.
create_polygon_type_reversed(T, polygon) ==
    LET k == Len(polygon.interiors)
    IN  << create_line_string_type(T, polygon.exterior) >>
            \o [i \in 1..k |-> create_line_string_type(T, polygon.interiors[k + 1 - i])]

\* Mutant: the exterior ring is emitted after the interior rings.
create_polygon_type_exterior_last(T, polygon) ==
    [i \in 1..Len(polygon.interiors) |->
        create_line_string_type(T, polygon.interiors[i])]
        \o << create_line_string_type(T, polygon.exterior) >>

create_polygon_type(T, polygon) ==
    LET coords == << [i \in 1..Len(polygon.exterior) |->
                        create_point_type(T, PointFromCoord(polygon.exterior[i]))] >>
    IN  coords \o [i \in 1..Len(polygon.interiors) |->
                      create_line_string_type(T, polygon.interiors[i])]

create_multi_polygon_type(T, multi_polygon) ==
    [i \in 1..Len(multi_polygon) |-> create_polygon_type(T, multi_polygon[i])]

\* --------------------------------------------------- decoders (flat -> typed)
\* point_type[0], point_type[1]: the index panics when out of bounds.
\* Mutant: x and y are read from each other's position.
create_geo_coordinate_swapped(T, point_type) ==
    IF Len(point_type) < 2 THEN Panic
    ELSE Ok(Coord(FromF64(T, point_type[2]), FromF64(T, point_type[1])))

\* Mutant: a missing y defaults to 0 (point_type.get(1).unwrap_or(&0.0)).
create_geo_coordinate_defaulting(T, point_type) ==
    IF Len(point_type) < 1 THEN Panic
    ELSE Ok(Coord(FromF64(T, point_type[1]),
                  IF Len(point_type) >= 2 THEN FromF64(T, point_type[2])
                                          ELSE FromF64(T, 0)))

create_geo_coordinate(T, point_type) ==
    IF Len(point_type) < 2 THEN Panic
    ELSE Ok(Coord(FromF64(T, point_type[1]), FromF64(T, point_type[2])))

\* Mutant: y is read from the last position instead of position 1.
create_geo_point_last(T, point_type) ==
    IF Len(point_type) < 2 THEN Panic
    ELSE Ok(PointNew(FromF64(T, point_type[1]),
                     FromF64(T, point_type[Len(point_type)])))

create_geo_point(T, point_type) ==
    IF Len(point_type) < 2 THEN Panic
    ELSE Ok(PointNew(FromF64(T, point_type[1]), FromF64(T, point_type[2])))

create_geo_multi_point(T, multipoint_type) ==
    Collect([i \in 1..Len(multipoint_type) |->
                create_geo_point(T, multipoint_type[i])])

create_geo_line_string(T, line_type) ==
    Collect([i \in 1..Len(line_type) |->
                create_geo_coordinate(T, line_type[i])])

\* Mutant: the line strings are collected last to first.
create_geo_multi_line_string_reversed(T, multi_line_type) ==
    LET n == Len(multi_line_type)
    IN  Collect([i \in 1..n |-> create_geo_line_string(T, multi_line_type[n + 1 - i])])

create_geo_multi_line_string(T, multi_line_type) ==
    Collect([i \in 1..Len(multi_line_type) |->
                create_geo_line_string(T, multi_line_type[i])])

\* Mutant: the interior rings are taken from polygon_type[0..].
create_geo_polygon_from0(T, polygon_type) ==
    LET exterior ==
            IF Len(polygon_type) >= 1
            THEN create_geo_line_string(T, polygon_type[1])
            ELSE create_geo_line_string(T, <<>>)
        interiors ==
            IF Len(polygon_type) < 2
            THEN Ok(<<>>)
            ELSE Collect([i \in 1..Len(polygon_type) |->
                            create_geo_line_string(T, polygon_type[i])])
    IN  IF ~exterior.ok THEN Panic
        ELSE IF ~interiors.ok THEN Panic
        ELSE Ok(PolygonNew(exterior.v, interiors.v))

\* Mutant: the interior rings are stored as decoded, only the exterior is
\* closed.
create_geo_polygon_open_interiors(T, polygon_type) ==
    LET exterior ==
            IF Len(polygon_type) >= 1
            THEN create_geo_line_string(T, polygon_type[1])
            ELSE create_geo_line_string(T, <<>>)
        interiors ==
            IF Len(polygon_type) < 2
            THEN Ok(<<>>)
            ELSE Collect([i \in 1..(Len(polygon_type) - 1) |->
                            create_geo_line_string(T, polygon_type[i + 1])])
    IN  IF ~exterior.ok THEN Panic
        ELSE IF ~interiors.ok THEN Panic
        ELSE Ok([exterior |-> close(exterior.v), interiors |-> interiors.v])

create_geo_polygon(T, polygon_type) ==
    LET exterior ==
            IF Len(polygon_type) >= 1
            THEN create_geo_line_string(T, polygon_type[1])
            ELSE create_geo_line_string(T, <<>>)
        interiors ==
            IF Len(polygon_type) < 2
            THEN Ok(<<>>)
            ELSE Collect([i \in 1..(Len(polygon_type) - 1) |->
                            create_geo_line_string(T, polygon_type[i + 1])])
    IN  IF ~exterior.ok THEN Panic
        ELSE IF ~interiors.ok THEN Panic
        ELSE Ok(PolygonNew(exterior.v, interiors.v))

\* Mutant: a polygon that cannot be decoded is left out (filter_map).
create_geo_multi_polygon_skipping(T, multi_polygon_type) ==
    LET r == [i \in 1..Len(multi_polygon_type) |->
                 create_geo_polygon(T, multi_polygon_type[i])]
        kept == SelectSeq(r, LAMBDA x : x.ok)
    IN  Ok([i \in 1..Len(kept) |-> kept[i].v])

create_geo_multi_polygon(T, multi_polygon_type) ==
    Collect([i \in 1..Len(multi_polygon_type) |->
                create_geo_polygon(T, multi_polygon_type[i])])

\* geo::Geometry<T> is an enum: a variant tag and its payload.
GeoGeometry(tag, value) == [tag |-> tag, value |-> value]

RECURSIVE create_geo_geometry_collection(_, _)
\* Mutant: the geometries are collected last to first.
create_geo_geometry_collection_reversed(T, geometries) ==
    LET arm(g) ==
            CASE g.tag = "Point" -> create_geo_point(T, g.value)
              [] g.tag = "LineString" -> create_geo_line_string(T, g.value)
              [] g.tag = "Polygon" -> create_geo_polygon(T, g.value)
              [] g.tag = "MultiPoint" -> create_geo_multi_point(T, g.value)
              [] g.tag = "MultiPolygon" -> create_geo_multi_polygon(T, g.value)
              [] g.tag = "MultiLineString" ->
                    create_geo_multi_line_string(T, g.value)
              [] g.tag = "GeometryCollection" ->
                    create_geo_geometry_collection(T, g.value)
        n == Len(geometries)
        r == [i \in 1..n |-> arm(geometries[n + 1 - i])]
    IN  IF \E i \in 1..n : ~r[i].ok
        THEN Panic
        ELSE Ok([i \in 1..n |-> GeoGeometry(geometries[n + 1 - i].tag, r[i].v)])

create_geo_geometry_collection(T, geometries) ==
    LET arm(g) ==
            CASE g.tag = "Point" -> create_geo_point(T, g.value)
              [] g.tag = "LineString" -> create_geo_line_string(T, g.value)
              [] g.tag = "Polygon" -> create_geo_polygon(T, g.value)
              [] g.tag = "MultiPoint" -> create_geo_multi_point(T, g.value)
              [] g.tag = "MultiPolygon" -> create_geo_multi_polygon(T, g.value)
              [] g.tag = "MultiLineString" ->
                    create_geo_multi_line_string(T, g.value)
              [] g.tag = "GeometryCollection" ->
                    create_geo_geometry_collection(T, g.value)
        r == [i \in 1..Len(geometries) |-> arm(geometries[i])]
    IN  IF \E i \in 1..Len(geometries) : ~r[i].ok
        THEN Panic
        ELSE Ok([i \in 1..Len(geometries) |->
                    GeoGeometry(geometries[i].tag, r[i].v)])

\* ------------------------------------------------------------ inputs
\* Sequences whose elements are drawn from elem[k] (an element with k nodes
\* below it) and that hold exactly n nodes in all, an element counting for
\* one node plus the nodes below it.
RECURSIVE CostSeqs(_, _)
CostSeqs(elem, n) ==
    IF n = 0 THEN {<<>>}
    ELSE UNION { { <<e>> \o rest : e \in elem[k], rest \in CostSeqs(elem, n - 1 - k) }
                 : k \in 0..(n - 1) }

UpTo(by) == UNION { by[n] : n \in 0..MaxNodes }

\* PointType = Vec<f64>, of any length.
FlatPairs == UNION { [1..n -> 0..MaxCoord] : n \in 0..MaxPairLen }

\* The positions used inside larger inputs: two well-formed pairs (one of
\* them exact in f32, one not), one too short, one with a third element.
PairA == <<0, Ulp32>>
PairB == <<1, 0>>
PairShort == <<Ulp32>>
PairLong == <<0, Ulp32, 1>>
NestedPts == {PairA, PairB, PairShort, PairLong}

FlatPtsBy == [k \in 0..MaxNodes |-> IF k = 0 THEN NestedPts ELSE {}]
\* LineStringType = Vec<PointType>
FlatLinesBy == [n \in 0..MaxNodes |-> CostSeqs(FlatPtsBy, n)]
\* PolygonType = Vec<LineStringType>
FlatRingsBy == [n \in 0..MaxNodes |-> CostSeqs(FlatLinesBy, n)]
\* Vec<PolygonType>
FlatPolysBy == [n \in 0..MaxNodes |-> CostSeqs(FlatRingsBy, n)]

\* geojson::Geometry: the Value enum, a tag and its payload.
Geometry(tag, value) == [tag |-> tag, value |-> value]

LeafGeoms ==
    { Geometry("Point", PairA), Geometry("Point", PairShort),
      Geometry("LineString", <<PairA, PairB>>),
      Geometry("LineString", <<PairA, PairShort>>),
      Geometry("Polygon", << <<PairA, PairB>>, <<PairB>> >>),
      Geometry("Polygon", << <<PairA>>, <<PairShort>> >>),
      Geometry("MultiPoint", <<PairA, PairB>>),
      Geometry("MultiPoint", <<PairShort, PairA>>),
      Geometry("MultiLineString", << <<PairA>>, <<PairB, PairA>> >>),
      Geometry("MultiLineString", << <<>>, <<PairShort>> >>),
      Geometry("MultiPolygon", << << <<PairA, PairB>> >>, <<>> >>),
      Geometry("MultiPolygon", << << <<PairA>> >>, << <<PairB>>, <<PairShort>> >> >>) }

\* Vec<Geometry> holding exactly n geometries, nested ones included.
RECURSIVE GeomSeqs(_)
GeomElems(k) ==
    (IF k = 0 THEN LeafGeoms ELSE {})
        \cup { Geometry("GeometryCollection", c) : c \in GeomSeqs(k) }
GeomSeqs(n) ==
    IF n = 0 THEN {<<>>}
    ELSE UNION { { <<e>> \o rest : e \in GeomElems(k), rest \in GeomSeqs(n - 1 - k) }
                 : k \in 0..(n - 1) }

FlatGeoms == UNION { GeomSeqs(n) : n \in 0..MaxGeoms }

\* Values of T: every f64, or the f32 grid indices.
TVals(T) == IF T = "f64" THEN 0..MaxCoord ELSE 0..(MaxCoord \div Ulp32)
TypedPoints(T) == { PointNew(a, b) : a \in TVals(T), b \in TVals(T) }

TypedCoordsBy == [k \in 0..MaxNodes |-> IF k = 0 THEN {Coord(0, 1), Coord(1, 0)} ELSE {}]
\* LineString<T>
TypedLinesBy == [n \in 0..MaxNodes |-> CostSeqs(TypedCoordsBy, n)]
\* MultiLineString<T>
TypedMultiLinesBy == [n \in 0..MaxNodes |-> CostSeqs(TypedLinesBy, n)]
\* Polygon<T>: its fields are private, every value comes from Polygon::new.
TypedPolysBy ==
    [n \in 0..MaxNodes |->
        { PolygonNew(Head(r), Tail(r)) : r \in TypedMultiLinesBy[n] \ {<<>>} }]
\* MultiPolygon<T>
TypedMultiPolysBy == [n \in 0..MaxNodes |-> CostSeqs(TypedPolysBy, n)]

\* ------------------------------------------------------------- state
\* T      the float type the caller instantiates the functions with
\* vals   the caller's values: the input, then the result of each call
\* calls  the functions called so far, calls[i] taking vals[i] to vals[i+1]
VARIABLES T, vals, calls
vars == <<T, vals, calls>>

Val(kind, val) == [kind |-> kind, val |-> val]
Panicked == Val("panic", <<>>)

Init ==
    /\ T \in NumTypes
    /\ calls = <<>>
    /\ \/ \E v \in FlatPairs : vals = <<Val("PointType", v)>>
       \/ \E v \in UpTo(FlatLinesBy) : vals = <<Val("LineStringType", v)>>
       \/ \E v \in UpTo(FlatRingsBy) : vals = <<Val("PolygonType", v)>>
       \/ \E v \in UpTo(FlatPolysBy) : vals = <<Val("VecPolygonType", v)>>
       \/ \E v \in FlatGeoms : vals = <<Val("VecGeometry", v)>>
       \/ \E v \in TypedPoints(T) : vals = <<Val("Point", v)>>
       \/ \E v \in UpTo(TypedLinesBy) : vals = <<Val("LineString", v)>>
       \/ \E v \in UpTo(TypedMultiLinesBy) : vals = <<Val("MultiLineString", v)>>
       \/ \E v \in UpTo(TypedPolysBy) : vals = <<Val("Polygon", v)>>
       \/ \E v \in UpTo(TypedMultiPolysBy) : vals = <<Val("MultiPolygon", v)>>

Last == vals[Len(vals)]

\* A call of fn on the caller's latest value, which must have fn's
\* parameter type; the result (or the panic) becomes the latest value.
Call(fn, inKind, outKind, result) ==
    /\ Len(calls) < MaxCalls
    /\ Last.kind = inKind
    /\ calls' = Append(calls, fn)
    /\ vals' = Append(vals, IF result.ok THEN Val(outKind, result.v) ELSE Panicked)
    /\ UNCHANGED T

Call_create_point_type ==
    Call("create_point_type", "Point", "PointType",
         Ok(create_point_type(T, Last.val)))

Call_create_line_string_type ==
    Call("create_line_string_type", "LineString", "LineStringType",
         Ok(create_line_string_type(T, Last.val)))

Call_create_multi_line_string_type ==
    Call("create_multi_line_string_type", "MultiLineString", "PolygonType",
         Ok(create_multi_line_string_type(T, Last.val)))

Call_create_polygon_type ==
    Call("create_polygon_type", "Polygon", "PolygonType",
         Ok(create_polygon_type(T, Last.val)))

Call_create_multi_polygon_type ==
    Call("create_multi_polygon_type", "MultiPolygon", "VecPolygonType",
         Ok(create_multi_polygon_type(T, Last.val)))

Call_create_geo_coordinate ==
    Call("create_geo_coordinate", "PointType", "Coord",
         create_geo_coordinate(T, Last.val))

Call_create_geo_point ==
    Call("create_geo_point", "PointType", "Point",
         create_geo_point(T, Last.val))

Call_create_geo_multi_point ==
    Call("create_geo_multi_point", "LineStringType", "MultiPoint",
         create_geo_multi_point(T, Last.val))

Call_create_geo_line_string ==
    Call("create_geo_line_string", "LineStringType", "LineString",
         create_geo_line_string(T, Last.val))

Call_create_geo_multi_line_string ==
    Call("create_geo_multi_line_string", "PolygonType", "MultiLineString",
         create_geo_multi_line_string(T, Last.val))

Call_create_geo_polygon ==
    Call("create_geo_polygon", "PolygonType", "Polygon",
         create_geo_polygon(T, Last.val))

Call_create_geo_multi_polygon ==
    Call("create_geo_multi_polygon", "VecPolygonType", "MultiPolygon",
         create_geo_multi_polygon(T, Last.val))

Call_create_geo_geometry_collection ==
    Call("create_geo_geometry_collection", "VecGeometry", "GeometryCollection",
         create_geo_geometry_collection(T, Last.val))

Next ==
    \/ Call_create_point_type
    \/ Call_create_line_string_type
    \/ Call_create_multi_line_string_type
    \/ Call_create_polygon_type
    \/ Call_create_multi_polygon_type
    \/ Call_create_geo_coordinate
    \/ Call_create_geo_point
    \/ Call_create_geo_multi_point
    \/ Call_create_geo_line_string
    \/ Call_create_geo_multi_line_string
    \/ Call_create_geo_polygon
    \/ Call_create_geo_multi_polygon
    \/ Call_create_geo_geometry_collection

Spec == Init /\ [][Next]_vars

\* ================================================================ claims
Steps == 1..Len(calls)
In(i) == vals[i].val
Out(i) == vals[i + 1].val
Returned(i) == vals[i + 1].kind # "panic"

Max(a, b) == IF a >= b THEN a ELSE b

\* Flat values whose every coordinate pair has exactly two elements.
ShapedLine(l) == \A j \in 1..Len(l) : Len(l[j]) = 2
ShapedRings(r) == \A j \in 1..Len(r) : ShapedLine(r[j])
ShapedPolys(m) == \A j \in 1..Len(m) : ShapedRings(m[j])
Shaped(v) ==
    CASE v.kind = "LineStringType" -> ShapedLine(v.val)
      [] v.kind = "PolygonType" -> ShapedRings(v.val)
      [] v.kind = "VecPolygonType" -> ShapedPolys(v.val)
      [] OTHER -> FALSE

\* Flat values whose every number converts to T and back without rounding.
ExactNum(n) == ToF64(T, FromF64(T, n)) = n
ExactLine(l) == \A j \in 1..Len(l) : \A k \in 1..Len(l[j]) : ExactNum(l[j][k])
ExactRings(r) == \A j \in 1..Len(r) : ExactLine(r[j])
ExactPolys(m) == \A j \in 1..Len(m) : ExactRings(m[j])
Exact(v) ==
    CASE v.kind = "LineStringType" -> ExactLine(v.val)
      [] v.kind = "PolygonType" -> ExactRings(v.val)
      [] v.kind = "VecPolygonType" -> ExactPolys(v.val)
      [] OTHER -> FALSE

\* A flat polygon with at least one ring, each ring empty or ending on the
\* pair it starts with.
ClosedRing(l) == Len(l) = 0 \/ l[1] = l[Len(l)]
ClosedRings(r) == Len(r) >= 1 /\ \A j \in 1..Len(r) : ClosedRing(r[j])

DecodeThenEncode ==
    { <<"create_geo_line_string", "create_line_string_type">>,
      <<"create_geo_multi_line_string", "create_multi_line_string_type">>,
      <<"create_geo_polygon", "create_polygon_type">>,
      <<"create_geo_multi_polygon", "create_multi_polygon_type">> }

EncodeThenDecode ==
    { <<"create_point_type", "create_geo_point">>,
      <<"create_line_string_type", "create_geo_line_string">>,
      <<"create_multi_line_string_type", "create_geo_multi_line_string">>,
      <<"create_polygon_type", "create_geo_polygon">>,
      <<"create_multi_polygon_type", "create_geo_multi_polygon">> }

Pairs == { i \in Steps : i + 1 \in Steps }

\* C1 (as stated): for every flat value F whose coordinate pairs all have
\* exactly 2 elements, encoding the decoded F returns F, for line strings,
\* multi line strings, polygons and multi polygons, empty polygons and
\* unclosed rings included.  Stated here for T = f64 alone, the
\* instantiation in which no number is rounded.
C1_RoundTripFlat_AsStated ==
    \A i \in Pairs :
        (/\ T = "f64"
         /\ <<calls[i], calls[i + 1]>> \in DecodeThenEncode
         /\ Shaped(vals[i]))
            => (vals[i + 2].kind = vals[i].kind /\ vals[i + 2].val = vals[i].val)

\* The further conditions a polygon round trip needs.
ClosedInput(i) ==
    CASE calls[i] = "create_geo_polygon" -> ClosedRings(In(i))
      [] calls[i] = "create_geo_multi_polygon" ->
            \A j \in 1..Len(In(i)) : ClosedRings(In(i)[j])
      [] OTHER -> TRUE

\* C1 (amended): encoding the decoded F returns F for every flat value F
\* whose pairs all have exactly 2 elements, whose numbers are all exactly
\* representable in T and, for polygons and multi polygons, in which every
\* polygon has at least one ring and every ring is empty or ends on the
\* pair it starts with.
C1_RoundTripFlat ==
    \A i \in Pairs :
        (/\ <<calls[i], calls[i + 1]>> \in DecodeThenEncode
         /\ Shaped(vals[i])
         /\ Exact(vals[i])
         /\ ClosedInput(i))
            => (vals[i + 2].kind = vals[i].kind /\ vals[i + 2].val = vals[i].val)

\* A polygon with two different closed rings of two pairs went through
\* decode and encode.
C1_Witness ==
    /\ Len(calls) >= 2
    /\ calls[1] = "create_geo_polygon" /\ calls[2] = "create_polygon_type"
    /\ Shaped(vals[1]) /\ Exact(vals[1]) /\ ClosedInput(1)
    /\ Len(In(1)) >= 2
    /\ Len(In(1)[1]) >= 1
    /\ In(1)[1] # In(1)[2]

\* C2: decoding the encoding of a typed Point, LineString, MultiLineString,
\* Polygon or MultiPolygon returns a geometry equal to it, element for
\* element in the same order.
C2_RoundTripTyped ==
    \A i \in Pairs :
        <<calls[i], calls[i + 1]>> \in EncodeThenDecode
            => (vals[i + 2].kind = vals[i].kind /\ vals[i + 2].val = vals[i].val)

\* A typed polygon with an interior ring unlike its exterior went through
\* encode and decode.
C2_Witness ==
    /\ Len(calls) >= 2
    /\ calls[1] = "create_polygon_type" /\ calls[2] = "create_geo_polygon"
    /\ Len(In(1).interiors) >= 1
    /\ Len(In(1).exterior) >= 2
    /\ In(1).interiors[1] # In(1).exterior

\* ring holds the coordinates of the flat ring l, in order, from its start,
\* and at most one coordinate after them.
RingFrom(ring, l) ==
    /\ Len(l) <= Len(ring) /\ Len(ring) <= Len(l) + 1
    /\ \A k \in 1..Len(l) :
          ring[k] = Coord(FromF64(T, l[k][1]), FromF64(T, l[k][2]))

\* C3: create_geo_polygon assigns rings by position: an empty input gives,
\* without error, an empty exterior and no interior ring; otherwise element
\* 0 is the exterior and elements 1..n-1 are the interior rings in order, so
\* that there are max(n - 1, 0) interior rings.
C3_RingsByPosition ==
    \A i \in Steps :
        calls[i] = "create_geo_polygon" =>
            LET F == In(i)
                n == Len(F)
            IN  /\ n = 0 => /\ Returned(i)
                            /\ Out(i).exterior = <<>>
                            /\ Out(i).interiors = <<>>
                /\ Returned(i) =>
                      /\ Len(Out(i).interiors) = Max(n - 1, 0)
                      /\ n >= 1 => RingFrom(Out(i).exterior, F[1])
                      /\ \A j \in 2..n : RingFrom(Out(i).interiors[j - 1], F[j])

\* create_geo_polygon returned for three rings or more, the interior ones
\* not all alike.
C3_Witness ==
    /\ Len(calls) >= 1
    /\ calls[1] = "create_geo_polygon"
    /\ Returned(1)
    /\ Len(In(1)) >= 3
    /\ In(1)[2] # In(1)[3]

\* C4: create_polygon_type returns k + 1 elements for a polygon with k
\* interior rings: the encoded exterior, then the encoded interior rings in
\* order.
C4_ExteriorThenInteriors ==
    \A i \in Steps :
        calls[i] = "create_polygon_type" =>
            LET P == In(i)
                k == Len(P.interiors)
            IN  /\ Returned(i)
                /\ Len(Out(i)) = k + 1
                /\ Out(i)[1] = create_line_string_type(T, P.exterior)
                /\ \A j \in 1..k :
                      Out(i)[j + 1] = create_line_string_type(T, P.interiors[j])

\* create_polygon_type ran on a polygon with two interior rings that differ.
C4_Witness ==
    /\ Len(calls) >= 1
    /\ calls[1] = "create_polygon_type"
    /\ Len(In(1).interiors) >= 2
    /\ In(1).interiors[1] # In(1).interiors[2]

\* The coordinates of the flat ring l, converted pair by pair.
Converted(l) == [k \in 1..Len(l) |-> Coord(FromF64(T, l[k][1]), FromF64(T, l[k][2]))]

RingOf(P, j) == IF j = 1 THEN P.exterior ELSE P.interiors[j - 1]

\* C5 (as stated): every ring of create_geo_polygon(F) has exactly the
\* coordinates of the flat ring at its position, none added or removed,
\* also when that ring is not a closed loop.
C5_RingsUnchanged_AsStated ==
    \A i \in Steps :
        (calls[i] = "create_geo_polygon" /\ Returned(i)) =>
            \A j \in 1..Len(In(i)) : RingOf(Out(i), j) = Converted(In(i)[j])

\* C5 (amended): a ring of create_geo_polygon(F) has the coordinates of the
\* flat ring at its position, in order; when that ring is not empty and its
\* first and last converted coordinates differ, a copy of the first follows
\* them, and nothing else is added or removed.
C5_RingsClosed ==
    \A i \in Steps :
        (calls[i] = "create_geo_polygon" /\ Returned(i)) =>
            \A j \in 1..Len(In(i)) :
                LET c == Converted(In(i)[j])
                IN  RingOf(Out(i), j) =
                        IF Len(c) = 0 \/ c[1] = c[Len(c)] THEN c ELSE c \o <<c[1]>>

\* create_geo_polygon returned a polygon for an input whose second ring is
\* open.
C5_Witness ==
    /\ Len(calls) >= 1
    /\ calls[1] = "create_geo_polygon"
    /\ Returned(1)
    /\ Len(In(1)) >= 2
    /\ Len(In(1)[2]) >= 2
    /\ Converted(In(1)[2])[1] # Converted(In(1)[2])[Len(In(1)[2])]

\* out is the typed collection that geoms decodes to: as long, with the same
\* variant at every position and the payload the variant's own decoder
\* gives, nested collections likewise, at every depth.
RECURSIVE Decoded(_, _)
Decoded(geoms, out) ==
    /\ Len(out) = Len(geoms)
    /\ \A j \in 1..Len(geoms) :
          LET g == geoms[j]
          IN  /\ out[j].tag = g.tag
              /\ CASE g.tag = "Point" ->
                        out[j].value = create_geo_point(T, g.value).v
                   [] g.tag = "LineString" ->
                        out[j].value = create_geo_line_string(T, g.value).v
                   [] g.tag = "Polygon" ->
                        out[j].value = create_geo_polygon(T, g.value).v
                   [] g.tag = "MultiPoint" ->
                        out[j].value = create_geo_multi_point(T, g.value).v
                   [] g.tag = "MultiLineString" ->
                        out[j].value = create_geo_multi_line_string(T, g.value).v
                   [] g.tag = "MultiPolygon" ->
                        out[j].value = create_geo_multi_polygon(T, g.value).v
                   [] g.tag = "GeometryCollection" ->
                        Decoded(g.value, out[j].value)

\* C6: create_geo_geometry_collection returns one element per input
\* element, in order, each of the variant its tag names and holding what the
\* decoder of that variant returns; a nested collection is decoded by the
\* same rule, at any depth.
C6_CollectionByTag ==
    \A i \in Steps :
        (calls[i] = "create_geo_geometry_collection" /\ Returned(i))
            => Decoded(In(i), Out(i))

\* A collection was decoded that holds, two levels down, a geometry, and
\* beside it another of a different kind.
C6_Witness ==
    /\ Len(calls) >= 1
    /\ calls[1] = "create_geo_geometry_collection"
    /\ Returned(1)
    /\ \E j \in 1..Len(In(1)) :
          /\ In(1)[j].tag = "GeometryCollection"
          /\ Len(In(1)[j].value) >= 2
          /\ In(1)[j].value[1].tag = "GeometryCollection"
          /\ In(1)[j].value[2].tag = "MultiPolygon"

\* What each mapping function does to one element.
Element(fn, e) ==
    CASE fn = "create_line_string_type" -> create_point_type(T, PointFromCoord(e))
      [] fn = "create_multi_line_string_type" -> create_line_string_type(T, e)
      [] fn = "create_multi_polygon_type" -> create_polygon_type(T, e)
      [] fn = "create_geo_multi_point" -> create_geo_point(T, e).v
      [] fn = "create_geo_line_string" -> create_geo_coordinate(T, e).v
      [] fn = "create_geo_multi_line_string" -> create_geo_line_string(T, e).v
      [] fn = "create_geo_multi_polygon" -> create_geo_polygon(T, e).v

Mappers ==
    { "create_line_string_type", "create_multi_line_string_type",
      "create_multi_polygon_type", "create_geo_multi_point",
      "create_geo_line_string", "create_geo_multi_line_string",
      "create_geo_multi_polygon" }

\* C7: every mapping encoder and decoder returns as many elements as it is
\* given, element j being the conversion of input element j; an empty input
\* gives an empty output and no error.
C7_LengthAndOrder ==
    \A i \in Steps :
        calls[i] \in Mappers =>
            /\ Len(In(i)) = 0 => (Returned(i) /\ Out(i) = <<>>)
            /\ Returned(i) =>
                  /\ Len(Out(i)) = Len(In(i))
                  /\ \A j \in 1..Len(In(i)) : Out(i)[j] = Element(calls[i], In(i)[j])

\* A mapping decoder returned for three elements, the first unlike the last.
C7_Witness ==
    /\ Len(calls) >= 1
    /\ calls[1] = "create_geo_multi_line_string"
    /\ Returned(1)
    /\ Len(In(1)) >= 3
    /\ In(1)[1] # In(1)[3]

\* The x and y of a Coord or a Point.
XY(v) == IF v.kind = "Point" THEN v.val[1] ELSE v.val

PairDecoders == {"create_geo_coordinate", "create_geo_point"}

\* C8: create_geo_coordinate and create_geo_point take position 0 as x and
\* position 1 as y, and fail on every input of fewer than 2 elements: no
\* coordinate is returned for it.
C8_PairOrPanic ==
    \A i \in Steps :
        calls[i] \in PairDecoders =>
            /\ Len(In(i)) < 2 => ~Returned(i)
            /\ Returned(i) =>
                  /\ XY(vals[i + 1]).x = FromF64(T, In(i)[1])
                  /\ XY(vals[i + 1]).y = FromF64(T, In(i)[2])

\* create_geo_coordinate was called with a single number.
C8_Witness ==
    /\ Len(calls) >= 1
    /\ calls[1] = "create_geo_coordinate"
    /\ Len(In(1)) = 1
    /\ ~Returned(1)

\* Some coordinate pair of the flat value has fewer than 2 elements.
ShortLine(l) == \E j \in 1..Len(l) : Len(l[j]) < 2
ShortRings(r) == \E j \in 1..Len(r) : ShortLine(r[j])
ShortPolys(m) == \E j \in 1..Len(m) : ShortRings(m[j])
RECURSIVE ShortGeoms(_)
ShortGeoms(geoms) ==
    \E j \in 1..Len(geoms) :
        LET g == geoms[j]
        IN  CASE g.tag = "Point" -> Len(g.value) < 2
              [] g.tag \in {"LineString", "MultiPoint"} -> ShortLine(g.value)
              [] g.tag \in {"Polygon", "MultiLineString"} -> ShortRings(g.value)
              [] g.tag = "MultiPolygon" -> ShortPolys(g.value)
              [] g.tag = "GeometryCollection" -> ShortGeoms(g.value)

Short(v) ==
    CASE v.kind = "LineStringType" -> ShortLine(v.val)
      [] v.kind = "PolygonType" -> ShortRings(v.val)
      [] v.kind = "VecPolygonType" -> ShortPolys(v.val)
      [] v.kind = "VecGeometry" -> ShortGeoms(v.val)

Composites ==
    { "create_geo_line_string", "create_geo_multi_point",
      "create_geo_multi_line_string", "create_geo_polygon",
      "create_geo_multi_polygon", "create_geo_geometry_collection" }

\* C9: a composite decoder fails, returning nothing, exactly when some
\* coordinate pair anywhere in its input has fewer than 2 elements; a value
\* it does return has every element of the input in it.
C9_AllOrNothing ==
    \A i \in Steps :
        calls[i] \in Composites =>
            /\ Returned(i) <=> ~Short(vals[i])
            /\ Returned(i) =>
                  CASE calls[i] = "create_geo_polygon" ->
                          Len(Out(i).interiors) = Max(Len(In(i)) - 1, 0)
                    [] OTHER -> Len(Out(i)) = Len(In(i))

\* A collection whose only short pair lies in a nested collection, after a
\* well-formed geometry, made the call fail.
C9_Witness ==
    /\ Len(calls) >= 1
    /\ calls[1] = "create_geo_geometry_collection"
    /\ ~Returned(1)
    /\ Len(In(1)) >= 2
    /\ ~ShortGeoms(<<In(1)[1]>>)
    /\ In(1)[2].tag = "GeometryCollection"
    /\ Len(In(1)[2].value) >= 1

Encoders ==
    { "create_point_type", "create_line_string_type",
      "create_multi_line_string_type", "create_polygon_type",
      "create_multi_polygon_type" }

\* C10: for an input of 2 elements or more create_geo_coordinate and
\* create_geo_point return, and return the x and y they return for its first
\* two elements alone; every encoder emits pairs of exactly 2 elements, so
\* that encoding a point decoded from 3 elements or more does not give the
\* input back.
C10_ThirdElementDropped ==
    /\ \A i \in Steps :
          (calls[i] \in PairDecoders /\ Len(In(i)) >= 2) =>
              /\ Returned(i)
              /\ Out(i) = IF calls[i] = "create_geo_point"
                          THEN create_geo_point(T, SubSeq(In(i), 1, 2)).v
                          ELSE create_geo_coordinate(T, SubSeq(In(i), 1, 2)).v
    /\ \A i \in Steps :
          calls[i] \in Encoders =>
              /\ Returned(i)
              /\ IF calls[i] = "create_point_type"
                 THEN Len(Out(i)) = 2
                 ELSE Shaped(vals[i + 1])
    /\ \A i \in Pairs :
          (calls[i] = "create_geo_point" /\ calls[i + 1] = "create_point_type"
                /\ Len(In(i)) >= 3)
              => (Len(vals[i + 2].val) = 2 /\ vals[i + 2].val # In(i))

\* A point decoded from three numbers was encoded again.
C10_Witness ==
    /\ Len(calls) >= 2
    /\ calls[1] = "create_geo_point" /\ calls[2] = "create_point_type"
    /\ Len(In(1)) = 3

====
